---------------------------- MODULE Spec2Model ----------------------------
(* Transfer engine, idempotency coordinator and request router of the     *)
(* internal wallet service: WalletController.processTransaction driving   *)
(* checkAndReserveIdempotencyKey / saveIdempotencyResult (Redis) and      *)
(* WalletService.executeTransaction (one Postgres transaction inside      *)
(* withRetry).  Every await of the code is one step of a request.         *)
(* Money is counted in integers; the seed balances are those of seed.sql. *)
EXTENDS Integers, Sequences, FiniteSets, TLC

\* ------------------------------------------------------------------ bounds
\* number of HTTP requests in flight (each slot serves one request)
NumReq == 2

Req == 1..NumReq

\* ------------------------------------------------------- program constants
\* seed.sql users: the last digits of the seeded UUIDs
Treasury == 1
Alice == 2
Charlie == 4
\* seed.sql balances
TreasurySeed == 1000000
AliceSeed == 100
CharlieSeed == 30
\* constants: TRANSACTION_LIMITS.MAX_AMOUNT
MAX_AMOUNT == 1000000000
\* withRetry(fn, maxAttempts = 3)
MaxAttempts == 3

\* the users that send requests; Charlie's wallet is a bystander row
Users == {Treasury, Alice}
Assets == {"GOLD", "DIAMOND"}
Types == {"TOP_UP", "BONUS", "SPEND"}

\* the wallet rows of seed.sql, named by (user, asset); no code path creates
\* or deletes a wallet
WalletIds ==
  { <<Treasury, "GOLD">>, <<Treasury, "DIAMOND">>,
    <<Alice, "GOLD">>, <<Charlie, "DIAMOND">> }

SeedBalance(w) ==
  IF w[1] = Treasury THEN TreasurySeed
  ELSE IF w[1] = Alice THEN AliceSeed
  ELSE CharlieSeed

\* ------------------------------------------------------- request inputs
Keys == {"k1", "k2"}
\* 60 is spendable by Alice once; TreasurySeed + 1 is valid and exceeds every
\* balance a run can reach, the Treasury's included
Amounts == {60, TreasurySeed + 1}

\* well-formed bodies over the seeded assets, two bodies whose amount fails
\* validation (not positive, over the maximum) and one whose asset symbol is
\* unknown
Bodies ==
  [userId : Users, type : Types, amount : Amounts, assetSymbol : Assets]
  \cup {[userId |-> Alice, type |-> "TOP_UP", amount |-> 0, assetSymbol |-> "GOLD"],
        [userId |-> Alice, type |-> "BONUS", amount |-> MAX_AMOUNT + 1, assetSymbol |-> "GOLD"],
        [userId |-> Alice, type |-> "SPEND", amount |-> 60, assetSymbol |-> "SILVER"]}

NoReq == [key |-> "", userId |-> 0, type |-> "", amount |-> 0, assetSymbol |-> ""]

\* ------------------------------------------------------------ result values
NoOutcome == [status |-> "NONE", txId |-> 0, balance |-> 0, error |-> ""]
Success(id, bal) == [status |-> "SUCCESS", txId |-> id, balance |-> bal, error |-> ""]
Failed(msg) == [status |-> "FAILED", txId |-> 0, balance |-> 0, error |-> msg]

\* FIC values: idempotency:<key> -> CachedResponse
Absent == [status |-> "ABSENT", txId |-> 0, balance |-> 0, error |-> ""]
Processing == [status |-> "PROCESSING", txId |-> 0, balance |-> 0, error |-> ""]

NoResp == [code |-> 0, status |-> "NONE", txId |-> 0, balance |-> 0, error |-> "", cached |-> FALSE]
Respond(c, o, isCached) ==
  [code |-> c, status |-> o.status, txId |-> o.txId, balance |-> o.balance,
   error |-> o.error, cached |-> isCached]

NoPending ==
  [active |-> FALSE, fromW |-> <<0, "">>, toW |-> <<0, "">>, newFrom |-> 0, newTo |-> 0,
   row |-> [id |-> 0, idempotency_key |-> "", from_wallet_id |-> <<0, "">>,
            to_wallet_id |-> <<0, "">>, amount |-> 0, type |-> "", status |-> ""],
   entries |-> <<>>, userBalance |-> 0]

VARIABLES
  pc,            \* where each request is in processTransaction / executeTransaction
  req,           \* the request's Idempotency-Key header and body
  attempt,       \* withRetry's attempt counter (0 outside withRetry)
  toLock,        \* wallet rows the locking read has still to lock, in scan order
  locks,         \* row lock owner of each wallet row (0: free)
  pending,       \* the uncommitted writes of the request's open PS transaction
  outcome,       \* what executeTransaction returned or threw (or the zod failure)
  resp,          \* the HTTP response sent
  fic,           \* Redis: value under idempotency:<key>
  wallets,       \* committed wallets.balance
  transactions,  \* committed transactions rows, in commit order
  ledger,        \* committed ledger_entries rows, in commit order
  engineBefore,  \* requests whose executeTransaction call had returned when this one's began
  lostInsert,    \* the request's insert has hit UNIQUE (idempotency_key)
  expired,       \* requests whose FIC reservation was gone before their Finalize
  treasuryId,    \* module variable treasuryId of the service (0: null)
  treasuryUser,  \* a users row with TREASURY_EMAIL exists
  listening,     \* startServer has reached app.listen
  ficUp,         \* Redis answers commands
  trip           \* a direct executeTransaction / getTransactionById call pair

db == <<wallets, transactions, ledger>>

\* the surroundings of the request handlers: no handler changes them
env == <<treasuryUser, listening, ficUp>>

vars == <<pc, req, attempt, toLock, locks, pending, outcome, resp, fic,
          wallets, transactions, ledger, engineBefore, lostInsert, expired, treasuryId, env, trip>>

\* no direct call is under way
NoTrip ==
  [pc |-> "off", userId |-> 0, type |-> "", amount |-> 0, assetSymbol |-> "",
   row |-> NoPending.row, entries |-> <<>>,
   view |-> [type |-> "", amount |-> 0, fromUser |-> 0, toUser |-> 0, ledger |-> <<>>]]

\* the state of the service and its stores before any request: requests idle,
\* FIC empty, the store as seeded, the memo unset
Constructed ==
  /\ pc = [r \in Req |-> "idle"]
  /\ req = [r \in Req |-> NoReq]
  /\ attempt = [r \in Req |-> 0]
  /\ toLock = [r \in Req |-> <<>>]
  /\ locks = [w \in WalletIds |-> 0]
  /\ pending = [r \in Req |-> NoPending]
  /\ outcome = [r \in Req |-> NoOutcome]
  /\ resp = [r \in Req |-> NoResp]
  /\ fic = [k \in Keys |-> Absent]
  /\ wallets = [w \in WalletIds |-> SeedBalance(w)]
  /\ transactions = <<>>
  /\ ledger = <<>>
  /\ engineBefore = [r \in Req |-> {}]
  /\ lostInsert = [r \in Req |-> FALSE]
  /\ expired = {}
  /\ treasuryId = 0
  /\ ficUp = TRUE

Init ==
  /\ Constructed
  /\ treasuryUser = TRUE
  /\ listening = TRUE
  /\ trip = NoTrip

\* ----------------------------------------------------------------- arrival
\* a client sends POST /wallets/transactions with an Idempotency-Key header
\* (request slots are interchangeable and are filled in order)
Receive(r) ==
  /\ listening
  /\ pc[r] = "idle"
  /\ \A q \in Req : q < r => pc[q] # "idle"
  /\ \E k \in Keys, b \in Bodies :
       req' = [req EXCEPT ![r] =
                 [key |-> k, userId |-> b.userId, type |-> b.type,
                  amount |-> b.amount, assetSymbol |-> b.assetSymbol]]
  /\ pc' = [pc EXCEPT ![r] = "get"]
  /\ UNCHANGED <<attempt, toLock, locks, pending, outcome, resp, fic,
                 wallets, transactions, ledger, engineBefore, lostInsert, expired, treasuryId, env, trip>>

\* ------------------------------------------- idempotency coordinator (FIC)
\* checkAndReserveIdempotencyKey, first await: redisClient.get.  A value found
\* is returned; the controller answers 409 for PROCESSING and replays any
\* other value with 200 and _cached: true.
CachedCode(v) == IF v.status = "PROCESSING" THEN 409 ELSE 200

InFlightBody == Failed("Transaction is currently processing. Please retry later.")

\* variant: only a PROCESSING value is returned; a terminal value is treated
\* as no value
CheckGetNoReplay(r) ==
  /\ ficUp
  /\ pc[r] = "get"
  /\ LET v == fic[req[r].key] IN
       IF v.status = "PROCESSING"
         THEN /\ pc' = [pc EXCEPT ![r] = "done"]
              /\ resp' = [resp EXCEPT ![r] = Respond(CachedCode(v), InFlightBody, FALSE)]
         ELSE /\ pc' = [pc EXCEPT ![r] = "setnx"]
              /\ UNCHANGED resp
  /\ UNCHANGED <<req, attempt, toLock, locks, pending, outcome, fic,
                 wallets, transactions, ledger, engineBefore, lostInsert, expired, treasuryId, env, trip>>

CheckGet(r) ==
  /\ ficUp
  /\ pc[r] = "get"
  /\ LET v == fic[req[r].key] IN
       IF v # Absent
         THEN /\ pc' = [pc EXCEPT ![r] = "done"]
              /\ resp' = [resp EXCEPT ![r] =
                            IF v.status = "PROCESSING"
                              THEN Respond(CachedCode(v), InFlightBody, FALSE)
                              ELSE Respond(CachedCode(v), v, TRUE)]
         ELSE /\ pc' = [pc EXCEPT ![r] = "setnx"]
              /\ UNCHANGED resp
  /\ UNCHANGED <<req, attempt, toLock, locks, pending, outcome, fic,
                 wallets, transactions, ledger, engineBefore, lostInsert, expired, treasuryId, env, trip>>

\* variant: the reservation written without NX
ReserveSetNoNX(r) ==
  /\ ficUp
  /\ pc[r] = "setnx"
  /\ fic' = [fic EXCEPT ![req[r].key] = Processing]
  /\ pc' = [pc EXCEPT ![r] = "parse"]
  /\ UNCHANGED <<req, attempt, toLock, locks, pending, outcome, resp,
                 wallets, transactions, ledger, engineBefore, lostInsert, expired, treasuryId, env, trip>>

\* variant: the SET writes PROCESSING even when the key exists, and the caller
\* is told of the conflict
ReserveSetClobbering(r) ==
  /\ ficUp
  /\ pc[r] = "setnx"
  /\ fic' = [fic EXCEPT ![req[r].key] = Processing]
  /\ IF fic[req[r].key] = Absent
       THEN /\ pc' = [pc EXCEPT ![r] = "parse"]
            /\ UNCHANGED resp
       ELSE /\ pc' = [pc EXCEPT ![r] = "done"]
            /\ resp' = [resp EXCEPT ![r] = Respond(409, InFlightBody, FALSE)]
  /\ UNCHANGED <<req, attempt, toLock, locks, pending, outcome,
                 wallets, transactions, ledger, engineBefore, lostInsert, expired, treasuryId, env, trip>>

\* checkAndReserveIdempotencyKey, second await: SET key PROCESSING EX .. NX
ReserveSetNX(r) ==
  /\ ficUp
  /\ pc[r] = "setnx"
  /\ IF fic[req[r].key] = Absent
       THEN /\ fic' = [fic EXCEPT ![req[r].key] = Processing]
            /\ pc' = [pc EXCEPT ![r] = "parse"]
            /\ UNCHANGED resp
       ELSE /\ pc' = [pc EXCEPT ![r] = "done"]
            /\ resp' = [resp EXCEPT ![r] = Respond(409, InFlightBody, FALSE)]
            /\ UNCHANGED fic
  /\ UNCHANGED <<req, attempt, toLock, locks, pending, outcome,
                 wallets, transactions, ledger, engineBefore, lostInsert, expired, treasuryId, env, trip>>

\* the request holds a reservation: checkAndReserveIdempotencyKey returned
\* null to it and it has not yet called saveIdempotencyResult
Holding(r) == pc[r] \in {"parse", "begin", "lock", "apply", "commit", "save"}

\* a Redis entry reaches its TTL (PROCESSING_TTL or CACHE_TTL).  Nothing but a
\* command on the key observes the expiry, so it is taken when a request is
\* about to issue one.
Expire(k) ==
  /\ fic[k] # Absent
  /\ \E r \in Req : pc[r] \in {"get", "setnx"} /\ req[r].key = k
  /\ fic' = [fic EXCEPT ![k] = Absent]
  /\ expired' = expired \cup {r \in Req : Holding(r) /\ req[r].key = k}
  /\ UNCHANGED <<pc, req, attempt, toLock, locks, pending, outcome, resp,
                 wallets, transactions, ledger, engineBefore, lostInsert,
                 treasuryId, env, trip>>

\* ------------------------------------------------- validation and routing
\* transactionSchema: amount positive and at most MAX_AMOUNT (userId, type
\* and assetSymbol are drawn from well-formed values)
ZodValid(b) == b.amount > 0 /\ b.amount <= MAX_AMOUNT

\* variant: the requesting user is the sender for every type
FromUserAlwaysRequester(type, userId) == userId

\* request router: the Treasury is the counterparty
FromUser(type, userId) == IF type \in {"TOP_UP", "BONUS"} THEN Treasury ELSE userId
ToUser(type, userId) == IF type \in {"TOP_UP", "BONUS"} THEN userId ELSE Treasury

\* executeTransaction's own argument checks; "" when they pass
EngineValidation(amount) ==
  IF amount <= 0 THEN "Amount must be a positive finite number"
  ELSE IF amount > MAX_AMOUNT THEN "Amount exceeds maximum"
  ELSE ""

\* variant: every symbol is taken for a known asset
AssetAlwaysKnown(symbol) == TRUE

\* prisma.asset.findUnique({ where: { symbol } }) over the seeded assets
AssetKnown(symbol) == symbol \in Assets

EngineReturned(q) ==
  pc[q] \in {"save", "done"} /\ outcome[q] # NoOutcome /\ ZodValid(req[q])

\* getTreasuryId: the memoized id, else the id of the user with
\* TREASURY_EMAIL, which is then memoized (0: the lookup finds no user and
\* the function throws)
GetTreasuryId(memo, present) ==
  IF memo # 0 THEN memo ELSE IF present THEN Treasury ELSE 0

\* safeParse, getTreasuryId, routing, and executeTransaction up to the start
\* of withRetry
ParseRoute(r) ==
  /\ pc[r] = "parse"
  /\ treasuryId' = IF ZodValid(req[r]) THEN GetTreasuryId(treasuryId, treasuryUser)
                   ELSE treasuryId
  /\ LET b == req[r]
         failure ==
           IF ~ZodValid(b) THEN "Validation failed"
           ELSE IF GetTreasuryId(treasuryId, treasuryUser) = 0
             THEN "System treasury account not found"
           ELSE IF EngineValidation(b.amount) # "" THEN EngineValidation(b.amount)
           ELSE IF ~AssetKnown(b.assetSymbol) THEN "Asset not found"
           ELSE ""
     IN  /\ IF failure # ""
              THEN /\ outcome' = [outcome EXCEPT ![r] = Failed(failure)]
                   /\ pc' = [pc EXCEPT ![r] = "save"]
                   /\ UNCHANGED attempt
              ELSE /\ pc' = [pc EXCEPT ![r] = "begin"]
                   /\ attempt' = [attempt EXCEPT ![r] = 1]
                   /\ UNCHANGED outcome
         /\ engineBefore' =
              [engineBefore EXCEPT ![r] =
                 IF ZodValid(b) THEN {q \in Req \ {r} : EngineReturned(q)} ELSE {}]
  /\ UNCHANGED <<req, toLock, locks, pending, resp, fic, wallets, transactions, ledger,
                 lostInsert, expired, env, trip>>

\* controller: 200 for a result, 400 for the zod failure and for messages
\* holding 'not found' or 'Insufficient funds', 500 otherwise
IsClientError(msg) ==
  msg \in {"Asset not found", "Sender wallet not found", "Receiver wallet not found",
           "System treasury account not found", "Insufficient funds."}

StatusCode(o) ==
  IF o.status = "SUCCESS" THEN 200
  ELSE IF o.error = "Validation failed" \/ IsClientError(o.error) THEN 400
  ELSE 500

\* saveIdempotencyResult (SET key value EX CACHE_TTL, no NX), then the response
Save(r) ==
  /\ ficUp
  /\ pc[r] = "save"
  /\ fic' = [fic EXCEPT ![req[r].key] = outcome[r]]
  /\ resp' = [resp EXCEPT ![r] = Respond(StatusCode(outcome[r]), outcome[r], FALSE)]
  /\ pc' = [pc EXCEPT ![r] = "done"]
  /\ UNCHANGED <<req, attempt, toLock, locks, pending, outcome,
                 wallets, transactions, ledger, engineBefore, lostInsert, expired, treasuryId, env, trip>>

\* ------------------------------------------------------ transfer engine
\* tx.transaction.findUnique({ where: { idempotency_key } }): indices of the
\* committed rows holding the key
Existing(key) ==
  {i \in 1..Len(transactions) : transactions[i].idempotency_key = key}

\* variant: the attempt starts without the idempotency probe
ProbeOff(key) == {}

\* the DB-level idempotency probe at the start of every attempt
Probe(key) == Existing(key)

\* const [lockA, lockB] = [fromUserId, toUserId].sort()
SortedPair(fromU, toU) == IF fromU <= toU THEN <<fromU, toU>> ELSE <<toU, fromU>>

\* the rows matched by  WHERE user_id IN (lockA, lockB) AND asset_id = asset
LockTargets(fromU, toU, asset) ==
  LET p == SortedPair(fromU, toU)
  IN  {w \in WalletIds : w[1] \in {p[1], p[2]} /\ w[2] = asset}

\* SELECT .. FOR UPDATE locks the matched rows one by one as the scan yields
\* them.  The statement has no ORDER BY and an IN list carries no order, so
\* the order of the scan is not fixed by the statement.
ScanOrders(S) ==
  {s \in [1..Cardinality(S) -> S] : \A i, j \in 1..Cardinality(S) : s[i] = s[j] => i = j}

\* variant: the locking read without FOR UPDATE never waits
RowLockFreeAlways(w, r) == TRUE

RowLockFree(w, r) == locks[w] \in {0, r}

\* gen_random_uuid(): no two rows share an id.  A call commits at most one
\* row, so the caller's index names it.
NewTxId(r) == r

\* CHECK (balance >= 0) of table wallets
BalanceCheck(b) == b >= 0

\* variant: a transactions table without UNIQUE (idempotency_key)
UniqueConflictOff(key) == FALSE

\* UNIQUE (idempotency_key) of table transactions, against committed rows
UniqueConflict(key) == Existing(key) # {}

\* variant: the debit written without the funds guard and without the CHECK
TransferOutcomeNoGuard(fromBal, toBal, amount) ==
  [error |-> "", newFrom |-> fromBal - amount, newTo |-> toBal + amount]

\* lines 135-144: the balance guard, the new balances, and the two wallet
\* updates (each subject to the wallets CHECK)
TransferOutcome(fromBal, toBal, amount) ==
  LET newFrom == fromBal - amount
      newTo == toBal + amount
  IN  [error |-> IF fromBal < 0 THEN "Wallet balance corrupted"
                 ELSE IF fromBal < amount THEN "Insufficient funds."
                 ELSE IF ~BalanceCheck(newFrom) \/ ~BalanceCheck(newTo)
                   THEN "Check constraint failed"
                 ELSE "",
       newFrom |-> newFrom, newTo |-> newTo]

\* tx.transaction.create
TxRow(id, key, fromW, toW, amount, type) ==
  [id |-> id, idempotency_key |-> key, from_wallet_id |-> fromW, to_wallet_id |-> toW,
   amount |-> amount, type |-> type, status |-> "SUCCESS"]

\* variant: the CREDIT line written as a second DEBIT
LedgerEntriesBothDebit(id, fromW, toW, amount, newFrom, newTo) ==
  << [transaction_id |-> id, wallet_id |-> fromW, entry_type |-> "DEBIT",
      amount |-> amount, balance_after |-> newFrom],
     [transaction_id |-> id, wallet_id |-> toW, entry_type |-> "DEBIT",
      amount |-> amount, balance_after |-> newTo] >>

\* variant: the CREDIT line carries the sender's new balance
LedgerEntriesStaleBalance(id, fromW, toW, amount, newFrom, newTo) ==
  << [transaction_id |-> id, wallet_id |-> fromW, entry_type |-> "DEBIT",
      amount |-> amount, balance_after |-> newFrom],
     [transaction_id |-> id, wallet_id |-> toW, entry_type |-> "CREDIT",
      amount |-> amount, balance_after |-> newFrom] >>

\* tx.ledgerEntry.createMany
LedgerEntries(id, fromW, toW, amount, newFrom, newTo) ==
  << [transaction_id |-> id, wallet_id |-> fromW, entry_type |-> "DEBIT",
      amount |-> amount, balance_after |-> newFrom],
     [transaction_id |-> id, wallet_id |-> toW, entry_type |-> "CREDIT",
      amount |-> amount, balance_after |-> newTo] >>

\* the caller-facing balance
UserBalance(type, newFrom, newTo) ==
  IF type \in {"TOP_UP", "BONUS"} THEN newTo ELSE newFrom

\* error codes as read by withRetry from error.code
PgCode(msg) ==
  IF msg = "deadlock detected" THEN "40P01"
  ELSE IF msg = "lock timeout" THEN "55P03"
  ELSE IF msg = "Unique constraint failed" THEN "P2002"
  ELSE ""

RETRYABLE_PG_CODES == {"40P01", "55P03"}

\* variant: every error is retried
IsRetryableAny(msg) == TRUE

IsRetryable(msg) == PgCode(msg) \in RETRYABLE_PG_CODES

FromWallet(r) == <<FromUser(req[r].type, req[r].userId), req[r].assetSymbol>>
ToWallet(r) == <<ToUser(req[r].type, req[r].userId), req[r].assetSymbol>>

\* start of an attempt: BEGIN, SET LOCAL lock_timeout, the idempotency probe,
\* and the start of the locking read
Begin(r) ==
  /\ pc[r] = "begin"
  /\ IF Probe(req[r].key) # {}
       THEN /\ outcome' = [outcome EXCEPT ![r] =
                 Success(transactions[CHOOSE i \in Probe(req[r].key) : TRUE].id, 0)]
            /\ pc' = [pc EXCEPT ![r] = "save"]
            /\ attempt' = [attempt EXCEPT ![r] = 0]
            /\ UNCHANGED toLock
       ELSE /\ \E order \in ScanOrders(LockTargets(FromWallet(r)[1], ToWallet(r)[1],
                                                   req[r].assetSymbol)) :
                 /\ toLock' = [toLock EXCEPT ![r] = order]
                 /\ pc' = [pc EXCEPT ![r] = IF order = <<>> THEN "apply" ELSE "lock"]
            /\ UNCHANGED <<outcome, attempt>>
  /\ UNCHANGED <<req, locks, pending, resp, fic,
                 wallets, transactions, ledger, engineBefore, lostInsert, expired, treasuryId, env, trip>>

\* the locking read takes the next row lock of its scan
LockRow(r) ==
  /\ pc[r] = "lock"
  /\ toLock[r] # <<>>
  /\ RowLockFree(Head(toLock[r]), r)
  /\ locks' = [locks EXCEPT ![Head(toLock[r])] = r]
  /\ toLock' = [toLock EXCEPT ![r] = Tail(toLock[r])]
  /\ pc' = [pc EXCEPT ![r] = IF Tail(toLock[r]) = <<>> THEN "apply" ELSE "lock"]
  /\ UNCHANGED <<req, attempt, pending, outcome, resp, fic,
                 wallets, transactions, ledger, engineBefore, lostInsert, expired, treasuryId, env, trip>>

\* variant: withRetry without its attempt budget
AbortRetryUnbounded(r, msg) ==
  /\ locks' = [w \in WalletIds |-> IF locks[w] = r THEN 0 ELSE locks[w]]
  /\ pending' = [pending EXCEPT ![r] = NoPending]
  /\ toLock' = [toLock EXCEPT ![r] = <<>>]
  /\ IF IsRetryable(msg)
       THEN /\ pc' = [pc EXCEPT ![r] = "begin"]
            /\ UNCHANGED <<outcome, attempt>>
       ELSE /\ pc' = [pc EXCEPT ![r] = "save"]
            /\ outcome' = [outcome EXCEPT ![r] = Failed(msg)]
            /\ attempt' = [attempt EXCEPT ![r] = 0]

\* ROLLBACK of the attempt, then withRetry's decision
Abort(r, msg) ==
  /\ locks' = [w \in WalletIds |-> IF locks[w] = r THEN 0 ELSE locks[w]]
  /\ pending' = [pending EXCEPT ![r] = NoPending]
  /\ toLock' = [toLock EXCEPT ![r] = <<>>]
  /\ IF IsRetryable(msg) /\ attempt[r] < MaxAttempts
       THEN /\ pc' = [pc EXCEPT ![r] = "begin"]
            /\ attempt' = [attempt EXCEPT ![r] = attempt[r] + 1]
            /\ UNCHANGED outcome
       ELSE /\ pc' = [pc EXCEPT ![r] = "save"]
            /\ outcome' = [outcome EXCEPT ![r] = Failed(msg)]
            /\ attempt' = [attempt EXCEPT ![r] = 0]

\* variant: a missing sender wallet is read as an empty one
PreInsertErrorMissingAsEmpty(r) ==
  IF FromWallet(r) \notin WalletIds THEN "Insufficient funds."
  ELSE IF ToWallet(r) \notin WalletIds THEN "Receiver wallet not found"
  ELSE TransferOutcome(wallets[FromWallet(r)], wallets[ToWallet(r)], req[r].amount).error

\* what the attempt throws before it reaches tx.transaction.create
PreInsertError(r) ==
  IF FromWallet(r) \notin WalletIds THEN "Sender wallet not found"
  ELSE IF ToWallet(r) \notin WalletIds THEN "Receiver wallet not found"
  ELSE TransferOutcome(wallets[FromWallet(r)], wallets[ToWallet(r)], req[r].amount).error

\* another open transaction has inserted the same key and not yet ended:
\* the insert waits for it
InsertBlockers(r) ==
  {q \in Req \ {r} : pending[q].active /\ pending[q].row.idempotency_key = req[r].key}

\* variant: the wallet updates issued outside the transaction (autocommit)
ApplyWritesAutocommit(r, p) ==
  /\ pending' = [pending EXCEPT ![r] = p]
  /\ wallets' = [[wallets EXCEPT ![p.fromW] = p.newFrom] EXCEPT ![p.toW] = p.newTo]
  /\ UNCHANGED <<transactions, ledger>>

\* the writes of the attempt, held in its open transaction
ApplyWrites(r, p) ==
  /\ pending' = [pending EXCEPT ![r] = p]
  /\ UNCHANGED <<wallets, transactions, ledger>>

\* lines 125-176 under the row locks: load, check, update, insert
Apply(r) ==
  /\ pc[r] = "apply"
  /\ IF PreInsertError(r) # ""
       THEN /\ Abort(r, PreInsertError(r))
            /\ UNCHANGED <<wallets, transactions, ledger, lostInsert>>
       ELSE /\ InsertBlockers(r) = {}
            /\ IF UniqueConflict(req[r].key)
                 THEN /\ Abort(r, "Unique constraint failed")
                      /\ lostInsert' = [lostInsert EXCEPT ![r] = TRUE]
                      /\ UNCHANGED <<wallets, transactions, ledger>>
                 ELSE LET o == TransferOutcome(wallets[FromWallet(r)], wallets[ToWallet(r)],
                                               req[r].amount)
                          id == NewTxId(r)
                      IN /\ ApplyWrites(r,
                              [active |-> TRUE, fromW |-> FromWallet(r), toW |-> ToWallet(r),
                               newFrom |-> o.newFrom, newTo |-> o.newTo,
                               row |-> TxRow(id, req[r].key, FromWallet(r), ToWallet(r),
                                             req[r].amount, req[r].type),
                               entries |-> LedgerEntries(id, FromWallet(r), ToWallet(r),
                                                         req[r].amount, o.newFrom, o.newTo),
                               userBalance |-> UserBalance(req[r].type, o.newFrom, o.newTo)])
                         /\ pc' = [pc EXCEPT ![r] = "commit"]
                         /\ UNCHANGED <<attempt, toLock, locks, outcome, lostInsert>>
  /\ UNCHANGED <<req, resp, fic, engineBefore, expired, treasuryId, env, trip>>

\* variant: the commit also rewrites the rows committed before it
CommitRewritingHistory(r) ==
  /\ pc[r] = "commit"
  /\ LET p == pending[r] IN
       /\ wallets' = [[wallets EXCEPT ![p.fromW] = p.newFrom] EXCEPT ![p.toW] = p.newTo]
       /\ transactions' =
            Append([i \in 1..Len(transactions) |->
                      [transactions[i] EXCEPT !.status = "SUPERSEDED"]], p.row)
       /\ ledger' = p.entries
       /\ outcome' = [outcome EXCEPT ![r] = Success(p.row.id, p.userBalance)]
  /\ locks' = [w \in WalletIds |-> IF locks[w] = r THEN 0 ELSE locks[w]]
  /\ pending' = [pending EXCEPT ![r] = NoPending]
  /\ pc' = [pc EXCEPT ![r] = "save"]
  /\ attempt' = [attempt EXCEPT ![r] = 0]
  /\ UNCHANGED <<req, toLock, resp, fic, engineBefore, lostInsert, expired, treasuryId, env, trip>>

\* variant: the wallet updates select by user only, whatever the asset
CommitByUser(r) ==
  /\ pc[r] = "commit"
  /\ LET p == pending[r] IN
       /\ wallets' = [w \in WalletIds |->
                        IF w[1] = p.toW[1] THEN p.newTo
                        ELSE IF w[1] = p.fromW[1] THEN p.newFrom
                        ELSE wallets[w]]
       /\ transactions' = Append(transactions, p.row)
       /\ ledger' = ledger \o p.entries
       /\ outcome' = [outcome EXCEPT ![r] = Success(p.row.id, p.userBalance)]
  /\ locks' = [w \in WalletIds |-> IF locks[w] = r THEN 0 ELSE locks[w]]
  /\ pending' = [pending EXCEPT ![r] = NoPending]
  /\ pc' = [pc EXCEPT ![r] = "save"]
  /\ attempt' = [attempt EXCEPT ![r] = 0]
  /\ UNCHANGED <<req, toLock, resp, fic, engineBefore, lostInsert, expired, treasuryId, env, trip>>

\* COMMIT: the buffered writes become visible together, the row locks go
Commit(r) ==
  /\ pc[r] = "commit"
  /\ LET p == pending[r] IN
       /\ wallets' = [[wallets EXCEPT ![p.fromW] = p.newFrom] EXCEPT ![p.toW] = p.newTo]
       /\ transactions' = Append(transactions, p.row)
       /\ ledger' = ledger \o p.entries
       /\ outcome' = [outcome EXCEPT ![r] = Success(p.row.id, p.userBalance)]
  /\ locks' = [w \in WalletIds |-> IF locks[w] = r THEN 0 ELSE locks[w]]
  /\ pending' = [pending EXCEPT ![r] = NoPending]
  /\ pc' = [pc EXCEPT ![r] = "save"]
  /\ attempt' = [attempt EXCEPT ![r] = 0]
  /\ UNCHANGED <<req, toLock, resp, fic, engineBefore, lostInsert, expired, treasuryId, env, trip>>

\* any other storage failure before COMMIT (connection lost, statement error)
StorageError(r) ==
  /\ pc[r] = "commit"
  /\ Abort(r, "storage error")
  /\ UNCHANGED <<req, resp, fic, wallets, transactions, ledger, engineBefore, lostInsert, expired, treasuryId, env, trip>>

\* ------------------------------------------------------------ lock waits
BlockedOnRow(r) ==
  pc[r] = "lock" /\ toLock[r] # <<>> /\ ~RowLockFree(Head(toLock[r]), r)

BlockedOnInsert(r) ==
  pc[r] = "apply" /\ PreInsertError(r) = "" /\ InsertBlockers(r) # {}

\* whom a blocked request waits for (0: nobody)
WaitsFor(r) ==
  IF BlockedOnRow(r) THEN locks[Head(toLock[r])]
  ELSE IF BlockedOnInsert(r) THEN CHOOSE q \in InsertBlockers(r) : TRUE
  ELSE 0

RECURSIVE WaitChain(_, _)
WaitChain(r, n) ==
  IF n = 0 \/ WaitsFor(r) = 0 THEN {}
  ELSE {WaitsFor(r)} \cup WaitChain(WaitsFor(r), n - 1)

InCycle(r) == r \in WaitChain(r, NumReq)

\* lock_timeout = '5s' elapses while the request waits: error 55P03
LockTimeout(r) ==
  /\ BlockedOnRow(r) \/ BlockedOnInsert(r)
  /\ Abort(r, "lock timeout")
  /\ UNCHANGED <<req, resp, fic, wallets, transactions, ledger, engineBefore, lostInsert, expired, treasuryId, env, trip>>

\* the store's deadlock detector aborts a member of a wait cycle: error 40P01
DeadlockDetected(r) ==
  /\ InCycle(r)
  /\ Abort(r, "deadlock detected")
  /\ UNCHANGED <<req, resp, fic, wallets, transactions, ledger, engineBefore, lostInsert, expired, treasuryId, env, trip>>

Next ==
  \/ \E r \in Req : Receive(r)
  \/ \E r \in Req : CheckGet(r)
  \/ \E r \in Req : ReserveSetNX(r)
  \/ \E r \in Req : ParseRoute(r)
  \/ \E r \in Req : Begin(r)
  \/ \E r \in Req : LockRow(r)
  \/ \E r \in Req : Apply(r)
  \/ \E r \in Req : Commit(r)
  \/ \E r \in Req : StorageError(r)
  \/ \E r \in Req : LockTimeout(r)
  \/ \E r \in Req : DeadlockDetected(r)
  \/ \E r \in Req : Save(r)
  \/ \E k \in Keys : Expire(k)

Spec == Init /\ [][Next]_vars

\* Scheduling: the event loop runs every continuation that is ready, Redis
\* and the store answer every command they can, a lock wait that lasts ends
\* with lock_timeout, and the deadlock detector runs.  Nothing obliges a
\* client to send a request, the store to fail, or a key to expire.
Fairness ==
  \A r \in Req :
    /\ WF_vars(CheckGet(r))
    /\ WF_vars(ReserveSetNX(r))
    /\ WF_vars(ParseRoute(r))
    /\ WF_vars(Begin(r))
    /\ WF_vars(LockRow(r))
    /\ WF_vars(Apply(r))
    /\ WF_vars(Commit(r))
    /\ WF_vars(LockTimeout(r))
    /\ WF_vars(DeadlockDetected(r))
    /\ WF_vars(Save(r))

\* the requests sent in the fair runs: 60 GOLD in every type for both users
\* (opposite directions over the same two rows, a second SPEND that is not
\* covered, the Treasury to itself) and the amount the schema rejects
FairBodies ==
  {b \in Bodies : b.assetSymbol = "GOLD" /\ b.amount \in {0, 60}}

\* a client sends one of the requests of the fair runs
ReceiveFair(r) ==
  /\ Receive(r)
  /\ [userId |-> req'[r].userId, type |-> req'[r].type,
      amount |-> req'[r].amount, assetSymbol |-> req'[r].assetSymbol] \in FairBodies

NextFair ==
  \/ \E r \in Req : ReceiveFair(r)
  \/ \E r \in Req : CheckGet(r)
  \/ \E r \in Req : ReserveSetNX(r)
  \/ \E r \in Req : ParseRoute(r)
  \/ \E r \in Req : Begin(r)
  \/ \E r \in Req : LockRow(r)
  \/ \E r \in Req : Apply(r)
  \/ \E r \in Req : Commit(r)
  \/ \E r \in Req : StorageError(r)
  \/ \E r \in Req : LockTimeout(r)
  \/ \E r \in Req : DeadlockDetected(r)
  \/ \E r \in Req : Save(r)
  \/ \E k \in Keys : Expire(k)

FairSpec == Init /\ [][NextFair]_vars /\ Fairness

\* ------------------------------------------------------------ FIC outage
\* Redis stops answering: from now on every command of redisClient rejects
\* (maxRetriesPerRequest)
RedisDown ==
  /\ ficUp
  /\ ficUp' = FALSE
  /\ UNCHANGED <<pc, req, attempt, toLock, locks, pending, outcome, resp, fic,
                 wallets, transactions, ledger, engineBefore, lostInsert, expired,
                 treasuryId, treasuryUser, listening, trip>>

\* what the client sees when processTransaction rejects: the handler has no
\* catch around the call and the app registers no error middleware, so the
\* framework either answers 500 itself or the rejection stays unhandled and
\* no response is sent
Rejections == {NoResp, Respond(500, Failed("Internal Server Error"), FALSE)}

\* checkAndReserveIdempotencyKey rejects (its GET or its SET): the call is
\* outside the handler's try block
FetchThrows(r) ==
  /\ ~ficUp
  /\ pc[r] \in {"get", "setnx"}
  /\ pc' = [pc EXCEPT ![r] = "done"]
  /\ \E v \in Rejections : resp' = [resp EXCEPT ![r] = v]
  /\ UNCHANGED <<req, attempt, toLock, locks, pending, outcome, fic,
                 wallets, transactions, ledger, engineBefore, lostInsert, expired,
                 treasuryId, env, trip>>

\* saveIdempotencyResult rejects inside the try block, and again in the catch
\* block that handles that
SaveThrows(r) ==
  /\ ~ficUp
  /\ pc[r] = "save"
  /\ pc' = [pc EXCEPT ![r] = "done"]
  /\ \E v \in Rejections : resp' = [resp EXCEPT ![r] = v]
  /\ UNCHANGED <<req, attempt, toLock, locks, pending, outcome, fic,
                 wallets, transactions, ledger, engineBefore, lostInsert, expired,
                 treasuryId, env, trip>>

NextOutage ==
  \/ Next
  \/ RedisDown
  \/ \E r \in Req : FetchThrows(r)
  \/ \E r \in Req : SaveThrows(r)

SpecOutage == Init /\ [][NextOutage]_vars

\* --------------------------------------------------------------------- boot
\* the process before startServer: nothing listens yet, the memo is unset,
\* and the seeded Treasury user is or is not in the store
InitBoot ==
  /\ Constructed
  /\ treasuryUser \in BOOLEAN
  /\ listening = FALSE
  /\ trip = NoTrip

\* startServer: validateEnvironment, connectRedis (PING), verifyDatabaseConnection
\* (SELECT 1), app.listen; a failure of one of them exits the process
StartServer ==
  /\ ~listening
  /\ ficUp
  /\ listening' = TRUE
  /\ UNCHANGED <<pc, req, attempt, toLock, locks, pending, outcome, resp, fic,
                 wallets, transactions, ledger, engineBefore, lostInsert, expired,
                 treasuryId, treasuryUser, ficUp, trip>>

NextBoot == StartServer \/ Next

SpecBoot == InitBoot /\ [][NextBoot]_vars

\* ------------------------------------------- amounts and DECIMAL(18,4)
\* executeTransaction called directly with a fractional amount, then
\* getTransactionById on the id it returned.  Amounts and balances of this
\* section are counted in hundred-thousandths (0.00001), one decimal place
\* finer than the DECIMAL(18,4) columns of the store keep.
MaxFine == 40
\* 0.0001, the step of a DECIMAL(18,4) column
Quantum == 10
\* the balance both wallets of the call hold when it is made (0.01)
TripBalance == 1000

\* a value written to a DECIMAL(18,4) column is rounded to 4 decimal places,
\* half away from zero (values here are not negative)
ToDecimal4(x) == ((x + Quantum \div 2) \div Quantum) * Quantum

\* CHECK (amount > 0) of tables transactions and ledger_entries
AmountCheck(a) == a > 0

\* getTransactionById: the row with its ledgerEntries relation; amounts are
\* rendered by Decimal.toString(), which gives the stored value exactly
GetTransactionById(row, entries) ==
  [type |-> row.type,
   amount |-> row.amount,
   fromUser |-> row.from_wallet_id[1],
   toUser |-> row.to_wallet_id[1],
   ledger |-> [i \in 1..Len(entries) |->
                 [entryType |-> entries[i].entry_type,
                  walletId |-> entries[i].wallet_id,
                  amount |-> entries[i].amount,
                  balanceAfter |-> entries[i].balance_after]]]

\* nothing listening, and a call about to be made with a positive amount
\* for a user's seeded wallet
InitTrip ==
  /\ Constructed
  /\ treasuryUser = TRUE
  /\ listening = FALSE
  /\ \E u \in {Alice, Charlie}, t \in Types, a \in 1..MaxFine :
       trip = [NoTrip EXCEPT !.pc = "call", !.userId = u, !.type = t, !.amount = a,
                             !.assetSymbol = IF u = Alice THEN "GOLD" ELSE "DIAMOND"]

\* executeTransaction, uncontended: the guard and the new balances computed
\* on the numbers passed, the row and the two entries as the columns keep
\* them; a row whose rounded amount is 0 fails CHECK (amount > 0) and the
\* transaction rolls back
TripExecute ==
  /\ trip.pc = "call"
  /\ LET fromW == <<FromUser(trip.type, trip.userId), trip.assetSymbol>>
         toW == <<ToUser(trip.type, trip.userId), trip.assetSymbol>>
         o == TransferOutcome(TripBalance, TripBalance, trip.amount)
         row == TxRow(1, "k1", fromW, toW, ToDecimal4(trip.amount), trip.type)
     IN  IF o.error # "" \/ ~AmountCheck(row.amount)
           THEN trip' = [trip EXCEPT !.pc = "failed"]
           ELSE trip' = [trip EXCEPT
                           !.pc = "committed",
                           !.row = row,
                           !.entries = LedgerEntries(1, fromW, toW, row.amount,
                                                     ToDecimal4(o.newFrom),
                                                     ToDecimal4(o.newTo))]
  /\ UNCHANGED <<pc, req, attempt, toLock, locks, pending, outcome, resp, fic,
                 wallets, transactions, ledger, engineBefore, lostInsert, expired,
                 treasuryId, env>>

\* getTransactionById on the id the call returned
TripGet ==
  /\ trip.pc = "committed"
  /\ trip' = [trip EXCEPT
                !.pc = "fetched",
                !.view = GetTransactionById(trip.row,
                           SelectSeq(trip.entries,
                                     LAMBDA e : e.transaction_id = trip.row.id))]
  /\ UNCHANGED <<pc, req, attempt, toLock, locks, pending, outcome, resp, fic,
                 wallets, transactions, ledger, engineBefore, lostInsert, expired,
                 treasuryId, env>>

NextTrip == TripExecute \/ TripGet

SpecTrip == InitTrip /\ [][NextTrip]_vars

\* ------------------------------------------------------------- properties
\* balances a serial run of the first n committed transfers leaves, each
\* computed as executeTransaction computes it
RECURSIVE BalancesAfter(_)
BalancesAfter(n) ==
  IF n = 0 THEN [w \in WalletIds |-> SeedBalance(w)]
  ELSE LET b == BalancesAfter(n - 1)
           t == transactions[n]
       IN  [[b EXCEPT ![t.from_wallet_id] = b[t.from_wallet_id] - t.amount]
              EXCEPT ![t.to_wallet_id] = b[t.to_wallet_id] + t.amount]

EntriesOf(id) == {j \in 1..Len(ledger) : ledger[j].transaction_id = id}

EntriesOn(w) == {j \in 1..Len(ledger) : ledger[j].wallet_id = w}

Overlapped(r1, r2) ==
  /\ attempt[r1] > 0 \/ EngineReturned(r1)
  /\ attempt[r2] > 0 \/ EngineReturned(r2)
  /\ r1 \notin engineBefore[r2]
  /\ r2 \notin engineBefore[r1]

\* C1: in every reachable state every wallet, the Treasury's included, has a
\* balance >= 0.
C1_NonNegative == \A w \in WalletIds : wallets[w] >= 0

\* C1 witness: Alice has spent 60 of her 100 and a further debit was refused
C1_Witness ==
  /\ wallets[<<Alice, "GOLD">>] = 40
  /\ \E r \in Req : outcome[r].error = "Insufficient funds."

\* C2: exactly-once: at most one transaction row per idempotency key, and the
\* wallet balances are those of applying every committed row exactly once.
C2_ExactlyOnce ==
  /\ \A k \in Keys : Cardinality(Existing(k)) <= 1
  /\ wallets = BalancesAfter(Len(transactions))

\* C2 witness: two requests with one key both ran the engine and both got a
\* result, with a single row committed for the key
C2_Witness ==
  \E r1, r2 \in Req :
    /\ r1 # r2
    /\ req[r1].key = req[r2].key
    /\ resp[r1].status = "SUCCESS" /\ ~resp[r1].cached
    /\ resp[r2].status = "SUCCESS" /\ ~resp[r2].cached
    /\ Cardinality(Existing(req[r1].key)) = 1

\* the arguments pass executeTransaction's checks that run before the probe
PassesPreChecks(b) == EngineValidation(b.amount) = "" /\ AssetKnown(b.assetSymbol)

\* r2's executeTransaction call began after r1's call with the same key had
\* returned a committed result, and has itself returned
InSequence(r1, r2) ==
  /\ r1 # r2
  /\ req[r1].key = req[r2].key
  /\ r1 \in engineBefore[r2]
  /\ outcome[r1].status = "SUCCESS"
  /\ EngineReturned(r2)

OneRowTwoEntries(k) ==
  /\ Cardinality(Existing(k)) = 1
  /\ \A i \in Existing(k) : Cardinality(EntriesOf(transactions[i].id)) = 2

\* C3 as stated: two calls in sequence with one key, whatever the arguments
\* of the second, leave one transaction row and two ledger rows for the key,
\* and both calls report the same txId.
C3_AsStated ==
  \A r1, r2 \in Req :
    InSequence(r1, r2) =>
      /\ OneRowTwoEntries(req[r1].key)
      /\ outcome[r2].status = "SUCCESS"
      /\ outcome[r2].txId = outcome[r1].txId

\* C3 amended: two calls in sequence with one key, the first committing, leave
\* one transaction row and two ledger rows for the key whatever the arguments
\* of the second; the second reports the first's txId when its amount is valid
\* and its asset symbol known, and otherwise throws before the probe.
C3_SequentialIdempotent ==
  \A r1, r2 \in Req :
    InSequence(r1, r2) =>
      /\ OneRowTwoEntries(req[r1].key)
      /\ IF PassesPreChecks(req[r2])
           THEN outcome[r2].status = "SUCCESS" /\ outcome[r2].txId = outcome[r1].txId
           ELSE outcome[r2].status = "FAILED"

\* C3 witness: the second call, with another type and amount, got the txId of
\* the first
C3_Witness ==
  \E r1, r2 \in Req :
    /\ InSequence(r1, r2)
    /\ req[r2].type # req[r1].type
    /\ req[r2].amount # req[r1].amount
    /\ outcome[r2].status = "SUCCESS"
    /\ outcome[r2].txId = outcome[r1].txId

\* the two ledger lines a serial run writes for its n-th transfer
SerialEntries(n) ==
  LET b == BalancesAfter(n - 1)
      t == transactions[n]
  IN  << [transaction_id |-> t.id, wallet_id |-> t.from_wallet_id, entry_type |-> "DEBIT",
          amount |-> t.amount, balance_after |-> b[t.from_wallet_id] - t.amount],
         [transaction_id |-> t.id, wallet_id |-> t.to_wallet_id, entry_type |-> "CREDIT",
          amount |-> t.amount, balance_after |-> b[t.to_wallet_id] + t.amount] >>

Committed(r) == \E i \in 1..Len(transactions) : transactions[i].id = NewTxId(r)

\* two requests with distinct keys on the same non-Treasury user and asset,
\* both committed, and no other transfer committed
OnlyTwoOn(r1, r2, w) ==
  /\ r1 # r2
  /\ Committed(r1) /\ Committed(r2)
  /\ Len(transactions) = 2
  /\ req[r1].userId # Treasury
  /\ w = <<req[r1].userId, req[r1].assetSymbol>>
  /\ w = <<req[r2].userId, req[r2].assetSymbol>>
  /\ req[r1].amount = req[r2].amount

C5_DoubleEntry ==
  \A i \in 1..Len(transactions) :
    LET t == transactions[i]
        E == EntriesOf(t.id)
    IN  /\ Cardinality(E) = 2
        /\ \E d, c \in E :
             /\ d # c
             /\ ledger[d].entry_type = "DEBIT"
             /\ ledger[d].wallet_id = t.from_wallet_id
             /\ ledger[d].amount = t.amount
             /\ ledger[c].entry_type = "CREDIT"
             /\ ledger[c].wallet_id = t.to_wallet_id
             /\ ledger[c].amount = t.amount

\* C5 witness: a TOP_UP and a SPEND are both committed
C5_Witness ==
  /\ Len(transactions) = 2
  /\ transactions[1].type = "SPEND"
  /\ transactions[2].type = "TOP_UP"

\* sum of the amounts of the first n ledger lines of the given type on w
RECURSIVE LedgerSum(_, _, _)
LedgerSum(w, type, n) ==
  IF n = 0 THEN 0
  ELSE LedgerSum(w, type, n - 1)
       + (IF ledger[n].wallet_id = w /\ ledger[n].entry_type = type
            THEN ledger[n].amount ELSE 0)

\* C6 as stated: after every committed transaction every wallet's balance is
\* the sum of its CREDIT entries minus the sum of its DEBIT entries.
C6_BalanceIsLedgerSum ==
  Len(transactions) > 0 =>
    \A w \in WalletIds :
      wallets[w] = LedgerSum(w, "CREDIT", Len(ledger)) - LedgerSum(w, "DEBIT", Len(ledger))

Latest(S) == CHOOSE j \in S : \A i \in S : i <= j

WholeTransfers ==
  /\ \A j \in 1..Len(ledger) : \E i \in 1..Len(transactions) :
       ledger[j].transaction_id = transactions[i].id
  /\ \A i \in 1..Len(transactions) : Cardinality(EntriesOf(transactions[i].id)) = 2
  /\ \A i, j \in 1..Len(transactions) : transactions[i].id = transactions[j].id => i = j
  /\ wallets = BalancesAfter(Len(transactions))

InAttempt(r) == pc[r] \in {"begin", "lock", "apply", "commit"}

\* this step ends r's attempt in failure (a retry or a thrown error)
AttemptFails(r) ==
  /\ InAttempt(r)
  /\ \/ pc'[r] = "begin" /\ attempt'[r] = attempt[r] + 1
     \/ pc'[r] = "save" /\ outcome'[r].status = "FAILED"

\* this step commits r's transfer whole: one row, two entries, two balances
CommitsWhole(r) ==
  /\ pc[r] = "commit" /\ pc'[r] = "save"
  /\ outcome'[r].status = "SUCCESS"
  /\ Len(transactions') = Len(transactions) + 1
  /\ SubSeq(transactions', 1, Len(transactions)) = transactions
  /\ transactions'[Len(transactions')].idempotency_key = req[r].key
  /\ Len(ledger') = Len(ledger) + 2
  /\ SubSeq(ledger', 1, Len(ledger)) = ledger
  /\ \A w \in WalletIds \ {FromWallet(r), ToWallet(r)} : wallets'[w] = wallets[w]

AtomicStep ==
  /\ \A r \in Req : AttemptFails(r) => db' = db
  /\ db' # db => \E r \in Req : CommitsWhole(r)

\* C8: atomicity: every state holds whole transfers only (a row exists iff its
\* two entries exist and its balance updates are applied); a step that ends an
\* attempt in failure leaves wallets, transactions and ledger unchanged, and
\* these change only in a step that commits a whole transfer.
C8_Atomic == []WholeTransfers /\ [][AtomicStep]_vars

\* C8 witness: an attempt failed after its writes were issued, and no row of
\* its key exists
C8_Witness ==
  \E r \in Req :
    /\ outcome[r].error = "storage error"
    /\ Existing(req[r].key) = {}
    /\ wallets = BalancesAfter(Len(transactions))

\* C9 as stated: the row locks are requested in one canonical order, so no
\* circular wait on wallet row locks forms.
C9_NoCircularWait == \A r \in Req : ~InCycle(r)

\* C10 as stated: an attempt that loses the insert race on its key is retried
\* and returns the winner's txId, not an error.
C10_LoserGetsWinnerTxId ==
  \A r \in Req :
    (lostInsert[r] /\ pc[r] \in {"save", "done"}) =>
      /\ outcome[r].status = "SUCCESS"
      /\ \E i \in Existing(req[r].key) : outcome[r].txId = transactions[i].id

\* no reservation of key k has been lost to the TTL before its holder's Finalize
NoExpiry(k) == \A q \in expired : req[q].key # k

\* r2's call of checkAndReserveIdempotencyKey takes a step (its GET or its SET)
\* while r1 holds a reservation of the same key
FetchesUnder(r1, r2) ==
  /\ r1 # r2
  /\ Holding(r1)
  /\ req[r2].key = req[r1].key
  /\ pc[r2] \in {"get", "setnx"}
  /\ pc'[r2] # pc[r2]

GetsInFlight(r2) == pc'[r2] = "done" /\ resp'[r2].code = 409

\* C11 as stated: from the Reservation to the holder's Finalize every other
\* caller on the key observes PROCESSING and receives InFlight.
C11_AsStated ==
  [][\A r1, r2 \in Req : FetchesUnder(r1, r2) => GetsInFlight(r2)]_vars

ReservedIsProcessing ==
  \A r \in Req :
    (Holding(r) /\ NoExpiry(req[r].key)) =>
      /\ fic[req[r].key] = Processing
      /\ \A q \in Req \ {r} : Holding(q) => req[q].key # req[r].key

\* C11 amended: from the Reservation to the holder's Finalize, as long as no
\* PROCESSING entry of the key has reached its TTL before its holder's
\* Finalize, FIC holds PROCESSING for the key, nobody else holds a
\* reservation of it, and every other caller on the key receives InFlight.
C11_ReservationExcludes ==
  /\ []ReservedIsProcessing
  /\ [][\A r1, r2 \in Req :
          (FetchesUnder(r1, r2) /\ NoExpiry(req[r1].key)) => GetsInFlight(r2)]_vars

\* C11 witness: while one request holds the reservation, a second request on
\* the key was answered 409, with no expiry in the run
C11_Witness ==
  \E r1, r2 \in Req :
    /\ r1 # r2
    /\ Holding(r1)
    /\ req[r2].key = req[r1].key
    /\ pc[r2] = "done" /\ resp[r2].code = 409
    /\ expired = {}

\* r1's reservation expired before its Finalize and r2, a retry with the same
\* key and body, obtained a reservation of the key after that
ReReserved(r1, r2) ==
  /\ r1 # r2
  /\ r1 \in expired /\ r2 \notin expired
  /\ req[r2] = req[r1]
  /\ r2 \notin engineBefore[r1]
  /\ Holding(r2)

\* this step is the return of r2's executeTransaction call
EngineReturns(r2) == InAttempt(r2) /\ pc'[r2] = "save"

\* C12 as stated: after the reservation of r1 expired, a re-reserving retry
\* whose call returns when r1's attempt has committed returns r1's txId and
\* writes nothing; and there is never a second row for the key nor a second
\* balance change.
C12_AsStated ==
  /\ [](\A k \in Keys : Cardinality(Existing(k)) <= 1)
  /\ [](wallets = BalancesAfter(Len(transactions)))
  /\ [][\A r1, r2 \in Req :
          (ReReserved(r1, r2) /\ EngineReturns(r2) /\ Committed(r1)) =>
            /\ outcome'[r2].status = "SUCCESS"
            /\ outcome'[r2].txId = NewTxId(r1)
            /\ db' = db]_vars

Terminal(v) == v.status \in {"SUCCESS", "FAILED"}

\* a terminal FIC value is what some finished request passed to
\* saveIdempotencyResult for that key
StoredByFinalize ==
  \A k \in Keys :
    Terminal(fic[k]) =>
      \E q \in Req : pc[q] = "done" /\ req[q].key = k /\ outcome[q] = fic[k]

\* r's GET reads a terminal value: the response is that value with
\* _cached: true, and nothing in PS or FIC changes
Replays(r) ==
  (pc[r] = "get" /\ pc'[r] # "get" /\ Terminal(fic[req[r].key])) =>
    /\ pc'[r] = "done"
    /\ resp'[r].cached
    /\ resp'[r].status = fic[req[r].key].status
    /\ resp'[r].txId = fic[req[r].key].txId
    /\ resp'[r].balance = fic[req[r].key].balance
    /\ resp'[r].error = fic[req[r].key].error
    /\ db' = db
    /\ fic' = fic

\* C13: once Finalize has stored a terminal outcome for a key, every request
\* with that key whose fetch finds the entry (not expired) receives the stored
\* outcome verbatim, marked _cached: true, and leaves balances, transaction
\* rows and ledger rows unchanged.
C13_CachedReplay ==
  /\ []StoredByFinalize
  /\ [][\A r \in Req : Replays(r)]_vars

\* C13 witness: a TOP_UP answered by the engine with Alice's new balance, and a
\* second request with its key answered from FIC with the same txId and balance
C13_Witness ==
  \E r1, r2 \in Req :
    /\ r1 # r2
    /\ req[r2].key = req[r1].key
    /\ resp[r1].status = "SUCCESS" /\ ~resp[r1].cached
    /\ resp[r2].cached
    /\ resp[r2].txId = resp[r1].txId
    /\ resp[r2].balance = AliceSeed + 60
    /\ resp[r1].balance = AliceSeed + 60
    /\ wallets[<<Alice, "GOLD">>] = AliceSeed + 60
    /\ Len(transactions) = 1

\* the request was answered with an outcome of its own or a replayed one
\* (anything but 409 InFlight)
Answered(r) == pc[r] = "done" /\ resp[r].code # 409

\* C14 as stated: all responses other than InFlight to requests sharing a key
\* (retries: same key, same body) report the same status, txId and balance.
C14_SameOutcome ==
  \A r1, r2 \in Req :
    (Answered(r1) /\ Answered(r2) /\ req[r1] = req[r2]) =>
      /\ resp[r1].status = resp[r2].status
      /\ resp[r1].txId = resp[r2].txId
      /\ resp[r1].balance = resp[r2].balance

\* this step is the start of an attempt of r at which a committed row holds
\* r's idempotency key
ProbeFinds(r) == pc[r] = "begin" /\ pc'[r] # "begin" /\ Existing(req[r].key) # {}

\* C15: when the DB-level idempotency probe finds a transaction row with the
\* given key, executeTransaction returns that row's txId and writes nothing:
\* wallet balances, transaction rows and ledger entries are unchanged (and no
\* row lock or pending write is taken).
C15_ProbeReturnsStored ==
  [][\A r \in Req :
       ProbeFinds(r) =>
         /\ pc'[r] = "save"
         /\ outcome'[r].status = "SUCCESS"
         /\ \A i \in Existing(req[r].key) : outcome'[r].txId = transactions[i].id
         /\ db' = db
         /\ locks' = locks /\ pending' = pending]_vars

\* C15 witness: a call returned another call's txId from the probe; the one
\* committed transfer is all that PS holds
C15_Witness ==
  \E r, q \in Req :
    /\ r # q
    /\ pc[r] \in {"save", "done"}
    /\ outcome[r].status = "SUCCESS" /\ outcome[r].txId = NewTxId(q)
    /\ Committed(q) /\ ~Committed(r)
    /\ Len(transactions) = 1 /\ Len(ledger) = 2
    /\ wallets = BalancesAfter(1)

\* r's attempt, holding the row locks, finds both wallets and a from-wallet
\* balance below the amount
FundsShort(r) ==
  /\ pc[r] = "apply" /\ pc'[r] # "apply"
  /\ FromWallet(r) \in WalletIds /\ ToWallet(r) \in WalletIds
  /\ wallets[FromWallet(r)] < req[r].amount

InsufficientFunds == Failed("Insufficient funds.")

\* C16: a transfer whose amount exceeds the current balance of its from-wallet
\* fails with 'Insufficient funds.' and leaves balances, transactions and
\* ledger unchanged; the controller then stores that FAILED outcome in FIC
\* under the request's key (and answers 400).
C16_InsufficientFunds ==
  /\ [][\A r \in Req :
          FundsShort(r) =>
            /\ pc'[r] = "save"
            /\ outcome'[r] = InsufficientFunds
            /\ db' = db]_vars
  /\ [][\A r \in Req :
          (pc[r] = "save" /\ pc'[r] = "done" /\ outcome[r] = InsufficientFunds) =>
            /\ fic'[req[r].key] = InsufficientFunds
            /\ resp'[r].code = 400 /\ resp'[r].error = "Insufficient funds."
            /\ db' = db]_vars

\* C16 witness: Alice's SPEND above her balance was answered 400, nothing was
\* written to PS, and FIC holds the FAILED outcome
C16_Witness ==
  \E r \in Req :
    /\ req[r].userId = Alice /\ req[r].type = "SPEND"
    /\ req[r].amount > AliceSeed
    /\ pc[r] = "done" /\ resp[r].code = 400 /\ ~resp[r].cached
    /\ resp[r].error = "Insufficient funds."
    /\ fic[req[r].key] = InsufficientFunds
    /\ transactions = <<>> /\ ledger = <<>>
    /\ wallets = [w \in WalletIds |-> SeedBalance(w)]

\* r's attempt loads the two wallets and one of them does not exist for the
\* asset
WalletMissing(r) ==
  /\ pc[r] = "apply" /\ pc'[r] # "apply"
  /\ FromWallet(r) \notin WalletIds \/ ToWallet(r) \notin WalletIds

NotFoundOf(r) ==
  IF FromWallet(r) \notin WalletIds THEN Failed("Sender wallet not found")
  ELSE Failed("Receiver wallet not found")

\* C17: a transfer whose from-wallet or to-wallet does not exist for the asset
\* fails with NotFound and mutates no row: the set of wallets stays that of
\* the seed, no balance changes, no transaction or ledger row is written.
C17_MissingWallet ==
  /\ [](DOMAIN wallets = WalletIds)
  /\ [][\A r \in Req :
          WalletMissing(r) =>
            /\ pc'[r] = "save"
            /\ outcome'[r] = NotFoundOf(r)
            /\ db' = db]_vars

\* C17 witness: Alice, who has no DIAMOND wallet, sent a DIAMOND SPEND; it was
\* answered 400 with the sender's wallet not found and PS is as seeded
C17_Witness ==
  \E r \in Req :
    /\ req[r].userId = Alice /\ req[r].assetSymbol = "DIAMOND" /\ req[r].type = "SPEND"
    /\ pc[r] = "done" /\ resp[r].code = 400
    /\ resp[r].error = "Sender wallet not found"
    /\ transactions = <<>> /\ ledger = <<>>
    /\ wallets = [w \in WalletIds |-> SeedBalance(w)]

\* C18 as stated: no committed transaction has from_wallet = to_wallet, and a
\* request whose two endpoints are the same user (the requesting user is the
\* Treasury) ends as a validation failure.
C18_NoSelfTransfer ==
  /\ \A i \in 1..Len(transactions) :
       transactions[i].from_wallet_id # transactions[i].to_wallet_id
  /\ \A r \in Req :
       (Answered(r) /\ ~resp[r].cached /\ req[r].userId = Treasury /\ ZodValid(req[r])) =>
         resp[r].status = "FAILED"

\* the request whose call committed the row (a call's rows carry its index)
RequestOf(t) == CHOOSE r \in Req : NewTxId(r) = t.id

\* C19: routing: every committed TOP_UP or BONUS goes from the Treasury's
\* wallet to the requesting user's wallet, every committed SPEND from the
\* requesting user's wallet to the Treasury's, both wallets of the requested
\* asset; the row carries the request's type, amount and key.
C19_Routing ==
  \A i \in 1..Len(transactions) :
    LET t == transactions[i]
        b == req[RequestOf(t)]
    IN  /\ t.type = b.type /\ t.amount = b.amount /\ t.idempotency_key = b.key
        /\ t.type \in {"TOP_UP", "BONUS"} =>
             /\ t.from_wallet_id = <<Treasury, b.assetSymbol>>
             /\ t.to_wallet_id = <<b.userId, b.assetSymbol>>
        /\ t.type = "SPEND" =>
             /\ t.from_wallet_id = <<b.userId, b.assetSymbol>>
             /\ t.to_wallet_id = <<Treasury, b.assetSymbol>>

\* C19 witness: a BONUS to Alice and then a SPEND by Alice are committed
C19_Witness ==
  /\ Len(transactions) = 2
  /\ transactions[1].type = "BONUS"
  /\ transactions[1].to_wallet_id = <<Alice, "GOLD">>
  /\ transactions[2].type = "SPEND"
  /\ transactions[2].from_wallet_id = <<Alice, "GOLD">>

\* the wallet whose balance the caller is shown
CallerWallet(r) == IF req[r].type \in {"TOP_UP", "BONUS"} THEN ToWallet(r) ELSE FromWallet(r)

\* C20 as stated: the balance a committing call returns is the caller-facing
\* wallet's previous balance + amount (TOP_UP, BONUS) or - amount (SPEND), and
\* it equals the balance stored for that wallet at commit.
C20_ReturnedBalance ==
  [][\A r \in Req :
       (pc[r] = "commit" /\ pc'[r] = "save" /\ outcome'[r].status = "SUCCESS") =>
         /\ outcome'[r].balance =
              wallets[CallerWallet(r)]
                + (IF req[r].type = "SPEND" THEN 0 - req[r].amount ELSE req[r].amount)
         /\ outcome'[r].balance = wallets'[CallerWallet(r)]]_vars

\* this step starts a further attempt of r's executeTransaction call
NewAttempt(r) == attempt[r] >= 1 /\ attempt'[r] = attempt[r] + 1

ContentionErrors == {"deadlock detected", "lock timeout"}

\* this step ends r's call with a thrown error
CallThrows(r) == InAttempt(r) /\ pc'[r] = "save" /\ outcome'[r].status = "FAILED"

\* C21: retry policy: a new attempt starts only after the previous one failed
\* with deadlock detected (40P01) or lock not available (55P03) and fewer than
\* 3 attempts were made; any other error ends the call with that attempt; a
\* contention error is surfaced only by the third attempt; no call makes more
\* than 3 attempts.
C21_RetryPolicy ==
  /\ [](\A r \in Req : attempt[r] <= MaxAttempts)
  /\ [][\A r \in Req :
          NewAttempt(r) =>
            /\ LockTimeout(r) \/ DeadlockDetected(r)
            /\ attempt[r] < MaxAttempts]_vars
  /\ [][\A r \in Req :
          CallThrows(r) =>
            /\ outcome'[r].error \in ContentionErrors => attempt[r] = MaxAttempts
            /\ (LockTimeout(r) \/ DeadlockDetected(r))
                 => outcome'[r].error \in ContentionErrors]_vars

\* C21 witness: a call gave up after its third attempt timed out on a lock
\* and the request was answered 500
C21_Witness ==
  \E r \in Req :
    /\ pc[r] = "done" /\ resp[r].code = 500
    /\ resp[r].error = "lock timeout"
    /\ ~Committed(r)

\* the request ended without a replayed outcome and without InFlight
OwnAnswer(r) == pc[r] = "done" /\ ~resp[r].cached /\ resp[r].code # 409

\* C22 as stated: with FIC unavailable a valid request is still executed
\* against PS (its executeTransaction call is made), and no transfer is
\* applied twice.
C22_OutageDegrades ==
  /\ \A k \in Keys : Cardinality(Existing(k)) <= 1
  /\ wallets = BalancesAfter(Len(transactions))
  /\ \A r \in Req :
       (OwnAnswer(r) /\ ZodValid(req[r])) => outcome[r] # NoOutcome

\* this step is r's saveIdempotencyResult and response
Finalizes(r) == pc[r] = "save" /\ pc'[r] = "done"

ContractCode(v) ==
  IF v.status = "SUCCESS" THEN 200
  ELSE IF v.error = InFlightBody.error THEN 409
  ELSE IF v.error = "Validation failed" \/ IsClientError(v.error) THEN 400
  ELSE 500

\* C24 as stated: every response of POST /transactions, computed or replayed,
\* carries 200 only for SUCCESS, 400 for a validation or business error, 409
\* for a duplicate in flight and 500 for an unexpected error.
C24_StatusCodes ==
  \A r \in Req :
    (pc[r] = "done" /\ resp[r] # NoResp) => resp[r].code = ContractCode(resp[r])

Arrived == {r \in Req : pc[r] # "idle"}

\* the amount the first n requests together send from wallet w
RECURSIVE Outflow(_, _)
Outflow(w, n) ==
  IF n = 0 THEN 0
  ELSE Outflow(w, n - 1)
       + (IF n \in Arrived /\ FromWallet(n) = w THEN req[n].amount ELSE 0)

\* the requests made so far are valid transfers between existing wallets,
\* with distinct keys, and every sending wallet is seeded with enough for all
\* of them
ValidFundedDistinct ==
  /\ \A r \in Arrived :
       /\ ZodValid(req[r]) /\ AssetKnown(req[r].assetSymbol)
       /\ FromWallet(r) \in WalletIds /\ ToWallet(r) \in WalletIds
  /\ \A r, q \in Arrived : r # q => req[r].key # req[q].key
  /\ \A w \in WalletIds : Outflow(w, NumReq) <= SeedBalance(w)

\* C25 as stated, in its finite form: of concurrent valid transfers with
\* distinct keys and sufficient funds none is given up on contention, that
\* is, none ends its call with deadlock detected or lock timeout after its 3
\* attempts. (A request answered FAILED never commits afterwards; failures
\* of the store itself are not contention and are left out.)
C25_AllCommit ==
  ValidFundedDistinct =>
    \A r \in Req :
      pc[r] \in {"save", "done"} => outcome[r].error \notin ContentionErrors

\* C26 as stated: the Treasury id is resolved at boot and memoized: the
\* service accepts requests only if the Treasury user was found and its id
\* memoized, and once set the memoized id never changes.
C26_TreasuryAtBoot ==
  /\ [](listening => (treasuryUser /\ treasuryId = Treasury))
  /\ [][treasuryId # 0 => treasuryId' = treasuryId]_vars

\* the sequence old is an initial part of the sequence new
IsPrefix(old, new) ==
  /\ Len(old) <= Len(new)
  /\ \A i \in 1..Len(old) : new[i] = old[i]

\* C27: transactions and ledger entries are append-only: every step leaves
\* each committed transaction row and each committed ledger entry in place
\* with identical fields; rows are only added.
C27_AppendOnly ==
  [][IsPrefix(transactions, transactions') /\ IsPrefix(ledger, ledger')]_vars

\* C27 witness: a second transfer was committed after a first one, whose row
\* and entries are still there
C27_Witness ==
  /\ Len(transactions) = 2
  /\ Len(ledger) = 4
  /\ EntriesOf(transactions[1].id) = {1, 2}

\* the request is one that validation must reject: amount not positive or
\* over the maximum, or unknown asset
ValidationFailure(b) ==
  \/ b.amount <= 0
  \/ b.amount > MAX_AMOUNT
  \/ b.assetSymbol \notin Assets

\* this step is r's validation and routing
Validates(r) == pc[r] = "parse" /\ pc'[r] # "parse"

\* C28: a request that fails validation fails fast without store work: its
\* validation step opens no transaction (no attempt, no lock, no buffered
\* write) and changes no wallet, transaction or ledger row, the request never
\* makes an attempt, and its finalization stores the FAILED outcome under
\* its key.
C28_FailFast ==
  /\ [](\A r \in Req :
          (pc[r] # "idle" /\ ValidationFailure(req[r]))
            => attempt[r] = 0 /\ ~pending[r].active /\ ~InAttempt(r))
  /\ [][\A r \in Req :
          (Validates(r) /\ ValidationFailure(req[r])) =>
            /\ db' = db /\ locks' = locks /\ pending' = pending
            /\ pc'[r] = "save"
            /\ outcome'[r].status = "FAILED"]_vars
  /\ [][\A r \in Req :
          (Finalizes(r) /\ ValidationFailure(req[r])) =>
            /\ fic'[req[r].key].status = "FAILED"
            /\ fic'[req[r].key].error = outcome[r].error]_vars

\* C28 witness: a request for an unknown asset was answered 400, FAILED is
\* stored under its key and the store is as seeded
C28_Witness ==
  \E r \in Req :
    /\ pc[r] = "done" /\ ~resp[r].cached
    /\ req[r].assetSymbol = "SILVER"
    /\ resp[r].code = 400 /\ resp[r].error = "Asset not found"
    /\ fic[req[r].key] = Failed("Asset not found")
    /\ transactions = <<>> /\ ledger = <<>>

\* C29 as stated: for a committed transfer, getTransactionById on the
\* returned id yields the amount, the type and the (from user, to user) pair
\* passed to executeTransaction, and a ledger of exactly two entries, one
\* DEBIT and one CREDIT, each of that amount.
C29_RoundTrip ==
  trip.pc = "fetched" =>
    LET v == trip.view IN
      /\ v.amount = trip.amount
      /\ v.type = trip.type
      /\ v.fromUser = FromUser(trip.type, trip.userId)
      /\ v.toUser = ToUser(trip.type, trip.userId)
      /\ Len(v.ledger) = 2
      /\ {v.ledger[1].entryType, v.ledger[2].entryType} = {"DEBIT", "CREDIT"}
      /\ \A i \in 1..2 : v.ledger[i].amount = trip.amount

\* this step is the return of r's checkAndReserveIdempotencyKey call
FetchReturns(r) == pc[r] \in {"get", "setnx"} /\ pc'[r] \in {"parse", "done"}

\* C30 as stated: checkAndReserveIdempotencyKey returns InFlight only if the
\* value stored under the key at that moment is PROCESSING; if the stored
\* value is a terminal outcome the caller receives that outcome; a
\* reservation is returned only if the key was absent.
C30_FetchMatchesStore ==
  [][\A r \in Req :
       FetchReturns(r) =>
         LET v == fic[req[r].key] IN
           /\ resp'[r].code = 409 => v = Processing
           /\ Terminal(v) =>
                 /\ pc'[r] = "done" /\ resp'[r].cached
                 /\ resp'[r].status = v.status /\ resp'[r].txId = v.txId
           /\ pc'[r] = "parse" => v = Absent]_vars

\* FIC's SUCCESS values name a committed row of their key
SuccessBacked ==
  \A k \in Keys :
    fic[k].status = "SUCCESS" =>
      \E i \in Existing(k) : transactions[i].id = fic[k].txId

\* C31 as stated: cache/store agreement: if FIC holds SUCCESS with txId t
\* under key k then the store has a committed transaction row with id t and
\* key k, and if FIC holds FAILED under key k then the store has no
\* transaction row with key k.
C31_CacheStoreAgree ==
  /\ SuccessBacked
  /\ \A k \in Keys : fic[k].status = "FAILED" => Existing(k) = {}

\* the sum of bal over the wallets in W
RECURSIVE TotalOver(_, _)
TotalOver(W, bal) ==
  IF W = {} THEN 0
  ELSE LET w == CHOOSE x \in W : TRUE
       IN  bal[w] + TotalOver(W \ {w}, bal)

WalletsOf(asset) == {w \in WalletIds : w[2] = asset}

\* C32 as stated: conservation: for each asset the sum of the balances of all
\* wallets of that asset is in every reachable state what it was when the
\* wallets were seeded.
C32_Conservation ==
  \A a \in Assets :
    TotalOver(WalletsOf(a), wallets)
      = TotalOver(WalletsOf(a), [w \in WalletIds |-> SeedBalance(w)])

\* C33: every transfer request terminates: under fair scheduling a request
\* that has started is eventually answered, its call having committed or
\* failed; no request waits forever.
C33_Terminates ==
  \A r \in Req : (pc[r] # "idle") ~> (pc[r] = "done")

\* C33 witness: two requests met in a deadlock; one was given up after its
\* third attempt, the other committed, and both were answered
C33_Witness ==
  \E r, q \in Req :
    /\ pc[r] = "done" /\ pc[q] = "done"
    /\ resp[r].error = "deadlock detected"
    /\ resp[q].status = "SUCCESS" /\ ~resp[q].cached

\* the wallets whose balance this step changes
Touched == {w \in WalletIds : wallets'[w] # wallets[w]}

\* C34: frame of a transfer: the step that commits a transfer changes no
\* balance other than those of its from-wallet and its to-wallet, both of
\* the requested asset; no other step changes a balance; and the set of
\* wallets is the seeded one in every state.
C34_Frame ==
  /\ [](DOMAIN wallets = WalletIds)
  /\ [][\A r \in Req :
          (pc[r] = "commit" /\ pc'[r] = "save" /\ outcome'[r].status = "SUCCESS") =>
            LET t == transactions'[Len(transactions')] IN
              /\ Touched \subseteq {t.from_wallet_id, t.to_wallet_id}
              /\ t.from_wallet_id[2] = req[r].assetSymbol
              /\ t.to_wallet_id[2] = req[r].assetSymbol]_vars
  /\ [][Touched # {} => Len(transactions') = Len(transactions) + 1]_vars

\* C34 witness: a TOP_UP of 60 GOLD to Alice is committed; the Treasury's and
\* Alice's GOLD wallets changed, the DIAMOND wallets hold their seeds
C34_Witness ==
  /\ Len(transactions) = 1
  /\ transactions[1].to_wallet_id = <<Alice, "GOLD">>
  /\ wallets[<<Alice, "GOLD">>] = AliceSeed + 60
  /\ wallets[<<Treasury, "GOLD">>] = TreasurySeed - 60
  /\ wallets[<<Treasury, "DIAMOND">>] = TreasurySeed
  /\ wallets[<<Charlie, "DIAMOND">>] = CharlieSeed

\* r has been answered 409
ToldInFlight(r) == pc[r] = "done" /\ resp[r].code = 409

\* C35: a request that receives InFlight (409) changes nothing: the step that
\* answers 409 leaves the value under every key, every wallet balance and
\* every transaction and ledger row as they were, and such a request never
\* reserved, never called the engine and committed no row.
C35_InFlightNoEffect ==
  /\ [][\A r \in Req :
          (pc[r] \in {"get", "setnx"} /\ resp'[r].code = 409) =>
            fic' = fic /\ db' = db]_vars
  /\ [](\A r \in Req :
          ToldInFlight(r) =>
            /\ outcome[r] = NoOutcome /\ attempt[r] = 0 /\ ~pending[r].active
            /\ ~Committed(r)
            /\ r \notin expired)

\* C35 witness: a request was answered 409 while another request with the
\* same key was in flight; that one committed and its SUCCESS is stored
C35_Witness ==
  \E r, q \in Req :
    /\ ToldInFlight(r)
    /\ q # r /\ req[q].key = req[r].key
    /\ pc[q] = "done" /\ resp[q].status = "SUCCESS" /\ ~resp[q].cached
    /\ fic[req[r].key].status = "SUCCESS"
    /\ Len(transactions) = 1
=============================================================================
